---- MODULE Spec2Model ----
(***************************************************************************)
(* Model of VideoProcessingQueue (lib/video-utils): the job registry, the  *)
(* concurrency-limited dispatcher (processNextJob), the stage executor     *)
(* (processJob, simulateDownloadProgress), and the status endpoint with    *)
(* its polling client.                                                     *)
(*                                                                         *)
(* JavaScript runs every callback to its next await without interleaving,  *)
(* and promise continuations (microtasks) run before any timer or request  *)
(* callback.  One action below is therefore one timer/request callback     *)
(* together with the promise continuations it triggers.                    *)
(*                                                                         *)
(* A job object is a record whose optional fields (result, error,          *)
(* completedAt, progress.estimatedTimeRemaining) are absent until          *)
(* assigned, as in the TypeScript interface.                               *)
(***************************************************************************)
EXTENDS Integers, Sequences, FiniteSets, TLC

\* Number of addJob calls explored.
MaxJobs == 4

\* Distinct values of Math.random().toString(36).substr(2, 9) explored.
MaxRandom == 2

\* private maxConcurrentJobs = 3
maxConcurrentJobs == 3

\* simulateDownloadProgress: const steps = 10
steps == 10

\* processJob: this.simulateDownloadProgress(job, 30, 60)
startProgress == 30
endProgress == 60

VARIABLES
  jobs,        \* Map<string, ProcessingJob>: its values in insertion order; the key is value.id
  activeJobs,  \* Set<string> of job ids
  timers,      \* number of pending setTimeout(() => this.processNextJob(), 100)
  exec,        \* the processNextJob invocations that admitted a job, in admission order
               \* (position, local job object)
  client,      \* per addJob call: the browser's pollJobStatus loop (position, last status)
  now,         \* Date.now(), in milliseconds
  issued       \* the identifiers addJob has returned, in call order

vars == <<jobs, activeJobs, timers, exec, client, now, issued>>

\* Ordinals of addJob calls and of executors (there are no more executors than calls).
Ids == 1..MaxJobs

RandomValues == 1..MaxRandom

\* addJob: `job_${Date.now()}_${Math.random().toString(36).substr(2, 9)}`
JobId(time, random) == <<time, random>>

----------------------------------------------------------------------------
\* Optional fields of a job object

Has(r, f) == f \in DOMAIN r

\* r.f = v on an object whose field may be absent
Assign(r, f, v) == (f :> v) @@ r

\* ProcessingProgress written by updateProgress: { stage, progress, message }
Snapshot(stage, progress) == [stage |-> stage, progress |-> progress]

\* Mutant of DownloadSnapshot: the sub-steps count up from zero, not from startProgress.
DownloadSnapshotFromZero(i) ==
  LET progressIncrement == (endProgress - startProgress) \div steps
      currentProgress == progressIncrement * i
      remainingSteps == steps - i
  IN  [stage |-> "downloading", progress |-> currentProgress,
       estimatedTimeRemaining |-> remainingSteps * 5]

\* ProcessingProgress written by simulateDownloadProgress (with estimatedTimeRemaining,
\* kept in tenths of a second: remainingSteps * 0.5 s)
DownloadSnapshot(i) ==
  LET progressIncrement == (endProgress - startProgress) \div steps
      currentProgress == startProgress + progressIncrement * i
      remainingSteps == steps - i
  IN  [stage |-> "downloading", progress |-> currentProgress,
       estimatedTimeRemaining |-> remainingSteps * 5]

\* Mutant of NewJob: the record is created already marked as processing.
NewJobStarted(id, urlOk, removeWatermark, createdAt) ==
  [id |-> id, urlOk |-> urlOk, removeWatermark |-> removeWatermark,
   status |-> "processing", progress |-> Snapshot("analyzing", 10), createdAt |-> createdAt]

\* addJob: the new ProcessingJob
NewJob(id, urlOk, removeWatermark, createdAt) ==
  [id |-> id, urlOk |-> urlOk, removeWatermark |-> removeWatermark,
   status |-> "queued", progress |-> Snapshot("analyzing", 0), createdAt |-> createdAt]

\* The Map: positions in insertion order, keys, and the position of a key
Slots == 1..Len(jobs)
IdAt(k) == jobs[k].id
KeysOf(reg) == {reg[k].id : k \in 1..Len(reg)}
KnownIds == KeysOf(jobs)
IndexOf(reg, id) == CHOOSE k \in 1..Len(reg) : reg[k].id = id

\* Map.get of a key that is absent
Undefined == [undefined |-> TRUE]

\* Mutant of getJob: a job that has not started is reported as missing.
getJobStartedOnly(id) ==
  IF id \in KnownIds /\ jobs[IndexOf(jobs, id)].status # "queued"
  THEN jobs[IndexOf(jobs, id)] ELSE Undefined

\* getJob(jobId): return this.jobs.get(jobId)
getJob(id) == IF id \in KnownIds THEN jobs[IndexOf(jobs, id)] ELSE Undefined

----------------------------------------------------------------------------
\* Mutant of AtCapacity: > in place of >=.
AtCapacityOffByOne(active) == Cardinality(active) > maxConcurrentJobs

\* processNextJob: if (this.activeJobs.size >= this.maxConcurrentJobs) return
AtCapacity(active) == Cardinality(active) >= maxConcurrentJobs

\* Mutant of FindQueued: every job that is not completed is a candidate.
FindNotCompleted(reg) ==
  LET open == {k \in 1..Len(reg) : reg[k].status # "completed"}
  IN  IF open = {} THEN 0 ELSE CHOOSE k \in open : \A m \in open : k <= m

\* Mutant of FindQueued: the last queued job in place of the first.
FindQueuedLast(reg) ==
  LET queued == {k \in 1..Len(reg) : reg[k].status = "queued"}
  IN  IF queued = {} THEN 0 ELSE CHOOSE k \in queued : \A m \in queued : k >= m

\* processNextJob: Array.from(this.jobs.values()).find(job => job.status === "queued")
\* (the first match in Map insertion order; 0 when there is none)
QueuedIds(reg) == {k \in 1..Len(reg) : reg[k].status = "queued"}
FindQueued(reg) ==
  IF QueuedIds(reg) = {} THEN 0
  ELSE CHOOSE k \in QueuedIds(reg) : \A m \in QueuedIds(reg) : k <= m

\* Mutant of TransformRequested: Stage 3 runs for every job.
TransformAlways(job) == TRUE

\* processJob: if (job.settings.removeWatermark)
TransformRequested(job) == job.removeWatermark

\* Mutant of Milestone: the converting stage reports a percent below the stages before it.
MilestoneConvertingLow(stage) ==
  CASE stage = "analyzing" -> 10
    [] stage = "downloading" -> startProgress
    [] stage = "processing" -> 65
    [] stage = "converting" -> 20
    [] stage = "finalizing" -> 95

\* processJob: the percent passed to updateProgress when a stage starts
Milestone(stage) ==
  CASE stage = "analyzing" -> 10
    [] stage = "downloading" -> startProgress
    [] stage = "processing" -> 65
    [] stage = "converting" -> 80
    [] stage = "finalizing" -> 95

\* processJob's closure updateProgress: job.progress = {...}; this.jobs.set(job.id, { ...job })
\* The object the executor holds and the copy stored in the registry.
ProgressOf(job, stage, progress) == [job EXCEPT !.progress = Snapshot(stage, progress)]
\* Mutant of RegistrySet: an existing key is deleted and set again, which moves it to the
\* end of the Map.
RegistryReinsert(reg, job) ==
  LET others == SelectSeq(reg, LAMBDA r : r.id # job.id)
  IN  Append(others, job)

\* Map.set: an existing key keeps its position and gets the new value; a new key is appended
RegistrySet(reg, job) ==
  IF job.id \in KeysOf(reg) THEN [reg EXCEPT ![IndexOf(reg, job.id)] = job]
  ELSE Append(reg, job)

\* processJob: job.result = { filePath, metadata, downloadUrl }
WithResult(job) ==
  Assign(job, "result", [filePath |-> job.id, metadata |-> "metadata", downloadUrl |-> job.id])

\* processNextJob, after await this.processJob(queuedJob) returns
Completed(job) == Assign([job EXCEPT !.status = "completed"], "completedAt", TRUE)

\* Mutant of Failed: the failed job is put back in the queue.
FailedRequeued(job, message) ==
  Assign(Assign([job EXCEPT !.status = "queued"], "error", message), "completedAt", TRUE)

\* processNextJob, catch (error)
Failed(job, message) ==
  Assign(Assign([job EXCEPT !.status = "failed"], "error", message), "completedAt", TRUE)

\* The executors started for the job stored at position k
ExecsOf(k) == {e \in DOMAIN exec : exec[e].job.id = IdAt(k)}
Admitted(k) == ExecsOf(k) # {}
Running(k) == \E e \in ExecsOf(k) : exec[e].pc # "done"
Finished(k) == Admitted(k) /\ \A e \in ExecsOf(k) : exec[e].pc = "done"

----------------------------------------------------------------------------
Init ==
  /\ jobs = << >>
  /\ activeJobs = {}
  /\ timers = 0
  /\ exec = << >>
  /\ client = << >>
  /\ now = 0
  /\ issued = << >>

\* The browser has not (yet) been told the job id.
NotPolling == [pc |-> "idle", status |-> "none"]

\* Mutant of Submit: the job is stored but no dispatch attempt is scheduled.
SubmitNoTimer(limit, elapsed, random, urlOk, removeWatermark) ==
  /\ Len(issued) < limit
  /\ now' = now + elapsed
  /\ LET jobId == JobId(now', random)
     IN  /\ jobs' = RegistrySet(jobs, NewJob(jobId, urlOk, removeWatermark, now'))
         /\ issued' = Append(issued, jobId)
  /\ timers' = timers
  /\ client' = Append(client, NotPolling)
  /\ UNCHANGED <<activeJobs, exec>>

\* addJob(url, settings), called by POST /api/download.
\* elapsed: milliseconds since the previous call; random: the suffix Math.random() gives;
\* urlOk: whether new URL(url) parses (extractMetadata yields null when it throws).
Submit(limit, elapsed, random, urlOk, removeWatermark) ==
  /\ Len(issued) < limit
  /\ now' = now + elapsed
  /\ LET jobId == JobId(now', random)
     IN  /\ jobs' = RegistrySet(jobs, NewJob(jobId, urlOk, removeWatermark, now'))
         /\ issued' = Append(issued, jobId)
  /\ timers' = timers + 1
  /\ client' = Append(client, NotPolling)
  /\ UNCHANGED <<activeJobs, exec>>

\* Submissions at least a millisecond apart.
AddJob(urlOk, removeWatermark) == Submit(MaxJobs, 1, 1, urlOk, removeWatermark)

\* Mutant of DispatchFull: a dispatch attempt that finds every slot taken times out one
\* of the running jobs.
DispatchFullEvicts ==
  /\ timers > 0
  /\ AtCapacity(activeJobs)
  /\ timers' = timers
  /\ activeJobs' = activeJobs \ {CHOOSE id \in activeJobs : TRUE}
  /\ UNCHANGED <<jobs, exec, client, now, issued>>

\* A dispatch timer fires while every slot is taken: processNextJob returns at once.
DispatchFull ==
  /\ timers > 0
  /\ AtCapacity(activeJobs)
  /\ timers' = timers - 1
  /\ UNCHANGED <<jobs, activeJobs, exec, client, now, issued>>

\* A dispatch timer fires and no job is queued.
DispatchIdle ==
  /\ timers > 0
  /\ ~AtCapacity(activeJobs)
  /\ FindQueued(jobs) = 0
  /\ timers' = timers - 1
  /\ UNCHANGED <<jobs, activeJobs, exec, client, now, issued>>

\* A dispatch timer fires and admits the first queued job; processJob runs up to its
\* first await: updateProgress("analyzing", 10, ...).  queuedJob is the registry's own
\* object until that updateProgress stores a copy.
DispatchAdmit ==
  /\ timers > 0
  /\ ~AtCapacity(activeJobs)
  /\ FindQueued(jobs) # 0
  /\ LET k == FindQueued(jobs)
         queuedJob == [jobs[k] EXCEPT !.status = "processing"]
         job == ProgressOf(queuedJob, "analyzing", Milestone("analyzing"))
     IN  /\ activeJobs' = activeJobs \cup {job.id}
         /\ jobs' = RegistrySet(jobs, job)
         /\ exec' = Append(exec, [pc |-> "analyzing", i |-> 0, job |-> job])
  /\ timers' = timers - 1
  /\ UNCHANGED <<client, now, issued>>

\* Mutant of Release: the slot is freed but no dispatch attempt is scheduled.
ReleaseNoDispatch(id) ==
  /\ activeJobs' = activeJobs \ {id}
  /\ timers' = timers

\* Mutant of Release: a dispatch attempt is scheduled but the slot stays taken.
ReleaseKeepsActive(id) ==
  /\ activeJobs' = activeJobs
  /\ timers' = timers + 1

\* processNextJob's finally: this.activeJobs.delete(id); setTimeout(processNextJob, 100)
Release(id) ==
  /\ activeJobs' = activeJobs \ {id}
  /\ timers' = timers + 1

\* extractMetadata returned metadata: updateProgress("downloading", 30, ...), then
\* simulateDownloadProgress writes its first sub-step to the executor's object.
MetadataResolved(e) ==
  /\ e \in DOMAIN exec /\ exec[e].pc = "analyzing"
  /\ exec[e].job.urlOk
  /\ LET job == ProgressOf(exec[e].job, "downloading", Milestone("downloading"))
     IN  /\ jobs' = RegistrySet(jobs, job)
         /\ exec' = [exec EXCEPT ![e] = [pc |-> "downloading", i |-> 0,
                                          job |-> [job EXCEPT !.progress = DownloadSnapshot(0)]]]
  /\ UNCHANGED <<activeJobs, timers, client, now, issued>>

\* Mutant of MetadataFailed: the downloading update is written before the metadata is
\* looked at.
MetadataFailedLate(e) ==
  /\ e \in DOMAIN exec /\ exec[e].pc = "analyzing"
  /\ ~exec[e].job.urlOk
  /\ LET job == ProgressOf(exec[e].job, "downloading", Milestone("downloading"))
     IN  /\ jobs' = RegistrySet(jobs, job)
         /\ exec' = [exec EXCEPT ![e] = [pc |-> "done", i |-> 0,
                        job |-> Failed(job, "Failed to extract video metadata")]]
  /\ Release(exec[e].job.id)
  /\ UNCHANGED <<client, now, issued>>

\* extractMetadata returned null: processJob throws, processNextJob catches.
MetadataFailed(e) ==
  /\ e \in DOMAIN exec /\ exec[e].pc = "analyzing"
  /\ ~exec[e].job.urlOk
  /\ exec' = [exec EXCEPT ![e] = [pc |-> "done", i |-> 0,
                 job |-> Failed(exec[e].job, "Failed to extract video metadata")]]
  /\ Release(exec[e].job.id)
  /\ UNCHANGED <<jobs, client, now, issued>>

\* simulateDownloadProgress: next iteration of the loop
DownloadStep(e) ==
  /\ e \in DOMAIN exec /\ exec[e].pc = "downloading"
  /\ exec[e].i + 1 < steps
  /\ exec' = [exec EXCEPT ![e].i = @ + 1,
                          ![e].job.progress = DownloadSnapshot(exec[e].i + 1)]
  /\ UNCHANGED <<jobs, activeJobs, timers, client, now, issued>>

\* simulateDownloadProgress returns; Stage 3 when settings.removeWatermark, else Stage 4
DownloadDone(e) ==
  /\ e \in DOMAIN exec /\ exec[e].pc = "downloading"
  /\ exec[e].i + 1 >= steps
  /\ LET rw == TransformRequested(exec[e].job)
         job == IF rw THEN ProgressOf(exec[e].job, "processing", Milestone("processing"))
                      ELSE ProgressOf(exec[e].job, "converting", Milestone("converting"))
     IN  /\ jobs' = RegistrySet(jobs, job)
         /\ exec' = [exec EXCEPT ![e] = [pc |-> IF rw THEN "processing" ELSE "converting",
                                          i |-> 0, job |-> job]]
  /\ UNCHANGED <<activeJobs, timers, client, now, issued>>

\* Stage 3 wait over: Stage 4
WatermarkDone(e) ==
  /\ e \in DOMAIN exec /\ exec[e].pc = "processing"
  /\ LET job == ProgressOf(exec[e].job, "converting", Milestone("converting"))
     IN  /\ jobs' = RegistrySet(jobs, job)
         /\ exec' = [exec EXCEPT ![e] = [pc |-> "converting", i |-> 0, job |-> job]]
  /\ UNCHANGED <<activeJobs, timers, client, now, issued>>

\* Mutant of ConvertDone: the update after Stage 4 is labelled with Stage 2's name.
ConvertDoneMislabelled(e) ==
  /\ e \in DOMAIN exec /\ exec[e].pc = "converting"
  /\ LET job == ProgressOf(exec[e].job, "downloading", Milestone("finalizing"))
     IN  /\ jobs' = RegistrySet(jobs, job)
         /\ exec' = [exec EXCEPT ![e] = [pc |-> "finalizing", i |-> 0, job |-> job]]
  /\ UNCHANGED <<activeJobs, timers, client, now, issued>>

\* Stage 4 wait over: Stage 5
ConvertDone(e) ==
  /\ e \in DOMAIN exec /\ exec[e].pc = "converting"
  /\ LET job == ProgressOf(exec[e].job, "finalizing", Milestone("finalizing"))
     IN  /\ jobs' = RegistrySet(jobs, job)
         /\ exec' = [exec EXCEPT ![e] = [pc |-> "finalizing", i |-> 0, job |-> job]]
  /\ UNCHANGED <<activeJobs, timers, client, now, issued>>

\* Stage 5 wait over: job.result = ...; updateProgress("finalizing", 100, ...); processJob
\* returns and processNextJob marks queuedJob completed.
Finalize(e) ==
  /\ e \in DOMAIN exec /\ exec[e].pc = "finalizing"
  /\ LET job == ProgressOf(WithResult(exec[e].job), "finalizing", 100)
     IN  /\ jobs' = RegistrySet(jobs, job)
         /\ exec' = [exec EXCEPT ![e] = [pc |-> "done", i |-> 0, job |-> Completed(job)]]
  /\ Release(exec[e].job.id)
  /\ UNCHANGED <<client, now, issued>>

ExecutorStep(e) ==
  \/ MetadataResolved(e)
  \/ MetadataFailed(e)
  \/ DownloadStep(e)
  \/ DownloadDone(e)
  \/ WatermarkDone(e)
  \/ ConvertDone(e)
  \/ Finalize(e)

Dispatch == DispatchFull \/ DispatchIdle \/ DispatchAdmit

\* Requests explored: a well-formed URL with and without watermark removal, and a URL
\* that new URL() rejects.
Requests == {<<TRUE, TRUE>>, <<TRUE, FALSE>>, <<FALSE, FALSE>>}

Next ==
  \/ \E r \in Requests : AddJob(r[1], r[2])
  \/ Dispatch
  \/ \E e \in Ids : ExecutorStep(e)

Spec == Init /\ [][Next]_vars

----------------------------------------------------------------------------
\* GET /api/download/status?id=...: the JSON payload built from getJob(id)
\* (JSON.stringify drops the fields that are undefined)
StatusPayload(job) ==
  LET base == [id |-> job.id, status |-> job.status, progress |-> job.progress]
      p1 == IF Has(job, "completedAt") THEN Assign(base, "completedAt", job.completedAt) ELSE base
      p2 == IF Has(job, "error") THEN Assign(p1, "error", job.error) ELSE p1
  IN  IF Has(job, "result")
      THEN Assign(p2, "result", [downloadUrl |-> job.result.downloadUrl,
                                 metadata |-> job.result.metadata])
      ELSE p2

\* GET /api/download/status: if (!job) return 404
StatusCode(id) == IF getJob(id) = Undefined THEN 404 ELSE 200

Terminal == {"completed", "failed"}

\* Browsers (VideoDownloader components) that follow a job of theirs.
MaxBrowsers == 1

Polling == {n \in DOMAIN client : client[n].pc \in {"fetching", "waiting"}}

\* handleDownload: the POST answered { success, jobId }; pollJobStatus(data.jobId) sends
\* its first fetch.  Jobs submitted by other API callers are never polled.
StartPolling(n) ==
  /\ n \in DOMAIN client
  /\ client[n].pc = "idle"
  /\ Cardinality(Polling) < MaxBrowsers
  /\ client' = [client EXCEPT ![n].pc = "fetching"]
  /\ UNCHANGED <<jobs, activeJobs, timers, exec, now, issued>>

\* The status endpoint answers a fetch of pollJobStatus: the loop arms its 500 ms timer
\* while the status is queued or processing, and stops on completed or failed.
PollRespond(n) ==
  /\ n \in DOMAIN client
  /\ client[n].pc = "fetching"
  /\ LET jobStatus == StatusPayload(getJob(issued[n]))
     IN  client' = [client EXCEPT ![n] =
                      [pc |-> IF jobStatus.status \in Terminal THEN "stopped" ELSE "waiting",
                       status |-> jobStatus.status]]
  /\ UNCHANGED <<jobs, activeJobs, timers, exec, now, issued>>

\* setTimeout(() => pollJobStatus(jobId), 500) fires: the next fetch is sent.
PollTimer(n) ==
  /\ n \in DOMAIN client
  /\ client[n].pc = "waiting"
  /\ client' = [client EXCEPT ![n].pc = "fetching"]
  /\ UNCHANGED <<jobs, activeJobs, timers, exec, now, issued>>

Poll(n) == StartPolling(n) \/ PollRespond(n) \/ PollTimer(n)

\* Array.prototype.sort with (a, b) => b.createdAt.getTime() - a.createdAt.getTime():
\* a stable sort, so a value goes behind every value the comparator does not put after it.
RECURSIVE InsertByCreatedAt(_, _)
InsertByCreatedAt(sorted, job) ==
  IF sorted = << >> THEN <<job>>
  ELSE IF job.createdAt - Head(sorted).createdAt <= 0
       THEN <<Head(sorted)>> \o InsertByCreatedAt(Tail(sorted), job)
       ELSE <<job>> \o sorted

RECURSIVE SortByCreatedAt(_)
SortByCreatedAt(values) ==
  IF values = << >> THEN << >>
  ELSE InsertByCreatedAt(SortByCreatedAt(SubSeq(values, 1, Len(values) - 1)),
                         values[Len(values)])

\* getAllJobs(): Array.from(this.jobs.values()).sort(...)
getAllJobs == SortByCreatedAt(jobs)

\* Mutant of ValuesAfterSort: the sort reorders the registry itself.
ValuesSortedInPlace(reg) == SortByCreatedAt(reg)

\* getAllJobs sorts the array Array.from built; the Map's own values keep their order.
ValuesAfterSort(reg) == reg

\* POST /api/download/status?action=list: the rows built from getAllJobs()
ListRow(job) ==
  LET base == [id |-> job.id, status |-> job.status, progress |-> job.progress,
               createdAt |-> job.createdAt]
  IN  IF Has(job, "completedAt") THEN Assign(base, "completedAt", job.completedAt) ELSE base

ListPayload == [p \in 1..Len(getAllJobs) |-> ListRow(getAllJobs[p])]

ListJobs ==
  /\ jobs' = ValuesAfterSort(jobs)
  /\ UNCHANGED <<activeJobs, timers, exec, client, now, issued>>

\* Node's event loop runs every timer that is due and every request that arrives: a
\* pending dispatch timer fires, an executor's wait ends, the browser's poll is answered.
Fairness ==
  /\ WF_vars(Dispatch)
  /\ \A e \in Ids : WF_vars(ExecutorStep(e))

\* Submissions explored under fairness: MaxLiveJobs jobs, of which at most MaxLiveValid
\* carry a URL that parses (and so run the whole pipeline).
MaxLiveJobs == 4
MaxLiveValid == 1

ValidUrls == {k \in Slots : jobs[k].urlOk}

LiveSubmit ==
  \E r \in Requests :
    /\ r[1] => Cardinality(ValidUrls) < MaxLiveValid
    /\ Submit(MaxLiveJobs, 1, 1, r[1], r[2])

LiveNext ==
  \/ LiveSubmit
  \/ Dispatch
  \/ \E e \in Ids : ExecutorStep(e)

PollNext ==
  \/ LiveSubmit
  \/ Dispatch
  \/ \E e \in Ids : ExecutorStep(e)
  \/ \E n \in Ids : Poll(n)
  \/ ListJobs

FairSpec == Init /\ [][LiveNext]_vars /\ Fairness

\* Submissions explored with the clock: MaxClockJobs calls, each in a new millisecond or
\* in the millisecond of the call before it, where the random suffix decides whether the
\* two ids differ. A valid URL is submitted with watermark removal.
MaxClockJobs == 4

ClockInputs == {<<1, 1>>} \cup {<<0, random>> : random \in RandomValues}

ClockSubmit ==
  \E urlOk \in BOOLEAN, c \in ClockInputs :
    /\ urlOk => Cardinality(ValidUrls) < MaxLiveValid
    /\ Submit(MaxClockJobs, c[1], c[2], urlOk, urlOk)

ClockNext ==
  \/ ClockSubmit
  \/ Dispatch
  \/ \E e \in Ids : ExecutorStep(e)
  \/ ListJobs

ClockSpec == Init /\ [][ClockNext]_vars

\* README, Performance: "Concurrent downloads: Up to 5 simultaneous downloads"
DocumentedConcurrent == 5

\* A burst of submissions large enough to fill the documented number of slots.
MaxBurstJobs == 5

BurstSubmit ==
  \E r \in Requests :
    /\ r[1] => Cardinality(ValidUrls) < MaxLiveValid
    /\ Submit(MaxBurstJobs, 1, 1, r[1], r[2])

BurstNext ==
  \/ BurstSubmit
  \/ Dispatch
  \/ \E e \in 1..MaxBurstJobs : ExecutorStep(e)

BurstSpec == Init /\ [][BurstNext]_vars

FairPollSpec ==
  Init /\ [][PollNext]_vars /\ Fairness
       /\ \A n \in Ids : WF_vars(PollRespond(n)) /\ WF_vars(PollTimer(n))

----------------------------------------------------------------------------
\* Properties

\* The executor of job k ran every applicable stage and processJob returned normally.
Succeeded(k) == Finished(k) /\ \A e \in ExecsOf(k) : exec[e].job.status = "completed"

\* The executor of job k stopped because extractMetadata yielded no metadata.
MetadataMissing(k) == Finished(k) /\ ~jobs[k].urlOk

ProcessingInRegistry == {k \in Slots : getJob(IdAt(k)).status = "processing"}

\* C1: once a job's executor has run all applicable stages without error, getJob(id)
\* returns status completed, a result, and a progress snapshot at 100%.
C1_CompletedVisible ==
  \A k \in Slots :
    Succeeded(k) =>
      /\ getJob(IdAt(k)).status = "completed"
      /\ Has(getJob(IdAt(k)), "result")
      /\ getJob(IdAt(k)).progress.progress = 100

\* C2: a job whose metadata resolution failed is returned by getJob(id) with status
\* failed and a non-empty error once its executor has stopped, and never with a result.
C2_FailedVisible ==
  \A k \in Slots :
    /\ ~getJob(IdAt(k)).urlOk => ~Has(getJob(IdAt(k)), "result")
    /\ MetadataMissing(k) =>
         /\ getJob(IdAt(k)).status = "failed"
         /\ Has(getJob(IdAt(k)), "error")
         /\ getJob(IdAt(k)).error # ""

\* C3: once a job's executor has finished, the polling client eventually receives a
\* terminal status (and so stops polling).
C3_PollingTerminates ==
  \A k \in Ids :
    []((k \in Slots /\ Finished(k) /\ k \in Polling)
         => <>(k \in DOMAIN client /\ client[k].pc = "stopped"
                 /\ client[k].status \in Terminal))

\* C4: the number of jobs that getJob / getAllJobs report as processing never exceeds
\* the concurrency limit.
C4_ProcessingWithinLimit == Cardinality(ProcessingInRegistry) <= maxConcurrentJobs

\* C5: the active set never holds more than maxConcurrentJobs job ids.
C5_ActiveWithinLimit == Cardinality(activeJobs) <= maxConcurrentJobs

\* C5 witness: three executors run while a fourth job waits and its dispatch attempt
\* has already been turned away.
C5_Witness ==
  /\ Cardinality(activeJobs) = maxConcurrentJobs
  /\ QueuedIds(jobs) # {}
  /\ timers = 0

\* C6: a dispatch attempt that admits a job admits the earliest-submitted job still
\* queued, and a job never leaves queued before a job submitted earlier.
C6_AdmittedInSubmissionOrder ==
  [][/\ \A k \in Slots :
          (getJob(IdAt(k)).status = "queued" /\ jobs'[k].status # "queued")
            => \A m \in 1..(k - 1) : getJob(IdAt(m)).status # "queued"
     /\ \A a \in 1..Len(jobs'), b \in 1..Len(jobs') :
          (a < b /\ jobs'[b].status # "queued") => jobs'[a].status # "queued"]_vars

\* C6 witness: the second job has been admitted while a later one is still queued.
C6_Witness ==
  /\ Len(jobs) >= 3
  /\ getJob(IdAt(2)).status # "queued"
  /\ getJob(IdAt(3)).status = "queued"

\* C7: under fair timers and executors, every submitted job eventually leaves queued.
C7_NoStarvation ==
  \A k \in Ids : [](k \in Slots => <>(k \in Slots /\ getJob(IdAt(k)).status # "queued"))

\* C7 witness: a job that found every slot taken (its own dispatch timer was used up
\* by the jobs before it) has been admitted after a slot was released.
C7_Witness ==
  /\ Len(jobs) > maxConcurrentJobs
  /\ \A k \in Slots : Admitted(k)
  /\ \E k \in Slots : Running(k) /\ k > maxConcurrentJobs

\* C8: from addJob's return until a dispatch attempt admits the job, the job has no
\* executor and getJob(id) returns status queued, progress 0, and no result, error or
\* completedAt.
C8_QueuedUntilAdmitted ==
  \A k \in Slots :
    ~Admitted(k) =>
      /\ IdAt(k) \notin activeJobs
      /\ getJob(IdAt(k)).status = "queued"
      /\ getJob(IdAt(k)).progress.progress = 0
      /\ ~Has(getJob(IdAt(k)), "result")
      /\ ~Has(getJob(IdAt(k)), "error")
      /\ ~Has(getJob(IdAt(k)), "completedAt")

\* C8 witness: a submitted job still waits, unadmitted, while other executors run.
C8_Witness ==
  \E k \in Slots : ~Admitted(k) /\ activeJobs # {} /\ getJob(IdAt(k)).status = "queued"

\* C9: the percent returned by getJob for a job never decreases from one read to a
\* later one.
C9_PercentNonDecreasing ==
  [][\A k \in Slots : jobs'[k].progress.progress >= getJob(IdAt(k)).progress.progress]_vars

\* C9 witness: a job has gone through the watermark stage and reads 100%.
C9_Witness ==
  \E k \in Slots :
    /\ getJob(IdAt(k)).removeWatermark
    /\ getJob(IdAt(k)).progress.progress = 100

\* C10: in the record getJob returns, result is set only if status is completed, error
\* only if status is failed, never both, and neither while queued or processing.
C10_ResultErrorMatchStatus ==
  \A k \in Slots :
    /\ Has(getJob(IdAt(k)), "result") => getJob(IdAt(k)).status = "completed"
    /\ Has(getJob(IdAt(k)), "error") => getJob(IdAt(k)).status = "failed"
    /\ ~(Has(getJob(IdAt(k)), "result") /\ Has(getJob(IdAt(k)), "error"))

\* C11: for a job that completes normally, getJob(id) returns a record with completedAt
\* set, and a record that has completedAt is terminal and keeps its status, result and
\* completedAt in every later read.
C11_CompletedAtVisible ==
  [][\A k \in Slots :
       /\ (Succeeded(k) => Has(getJob(IdAt(k)), "completedAt"))
       /\ (Has(getJob(IdAt(k)), "completedAt") =>
             /\ getJob(IdAt(k)).status \in Terminal
             /\ jobs'[k] = getJob(IdAt(k)))]_vars

\* A status change the job lifecycle allows.
StatusStep(from, to) ==
  \/ to = from
  \/ from = "queued" /\ to = "processing"
  \/ from = "processing" /\ to \in Terminal

\* C12: every job starts queued, and its status, in the registry record and on the
\* object its executor holds, only changes queued -> processing, processing ->
\* completed or processing -> failed; a completed or failed job keeps its status.
C12_StatusLifecycle ==
  [][/\ \A k \in Slots : StatusStep(getJob(IdAt(k)).status, jobs'[k].status)
     /\ \A k \in 1..Len(jobs') : k \notin Slots => jobs'[k].status = "queued"
     /\ \A e \in DOMAIN exec : StatusStep(exec[e].job.status, exec'[e].job.status)
     /\ \A e \in DOMAIN exec' :
          e \notin DOMAIN exec =>
            /\ getJob(exec'[e].job.id).status = "queued"
            /\ exec'[e].job.status = "processing"]_vars

\* C12 witness: one executor ended completed, another failed, and a job is still queued.
C12_Witness ==
  /\ \E e \in DOMAIN exec : exec[e].job.status = "completed"
  /\ \E e \in DOMAIN exec : exec[e].job.status = "failed"
  /\ QueuedIds(jobs) # {}

\* C13: a job submitted with removeWatermark = false never has a progress snapshot of
\* stage processing, neither in the registry nor on its executor's object, and its
\* executor never waits in Stage 3.
C13_NoTransformStage ==
  /\ \A k \in Slots :
       ~getJob(IdAt(k)).removeWatermark => getJob(IdAt(k)).progress.stage # "processing"
  /\ \A e \in DOMAIN exec :
       ~exec[e].job.removeWatermark =>
         exec[e].job.progress.stage # "processing" /\ exec[e].pc # "processing"

\* C13 witness: a job without watermark removal has run its whole pipeline.
C13_Witness ==
  \E k \in Slots : Succeeded(k) /\ ~getJob(IdAt(k)).removeWatermark

\* C14: the step in which an executor ends, by a throw or a return, takes the job out of
\* the active set and schedules a dispatch attempt; no finished job stays in the active
\* set; and a job queued while some executor has failed is eventually admitted.
C14_FailureContained ==
  /\ [][\A e \in DOMAIN exec :
          (exec[e].pc # "done" /\ exec'[e].pc = "done") =>
            exec[e].job.id \notin activeJobs' /\ timers' = timers + 1]_vars
  /\ [](\A k \in Slots : Finished(k) => IdAt(k) \notin activeJobs)
  /\ \A k \in Ids :
       []((/\ k \in Slots
           /\ getJob(IdAt(k)).status = "queued"
           /\ \E e \in DOMAIN exec : exec[e].job.status = "failed")
            => <>(k \in Slots /\ Admitted(k)))

\* C14 witness: every slot was taken when the last job arrived, the only executors that
\* have ended are failed ones, and the last job has been admitted.
C14_Witness ==
  /\ Len(exec) > maxConcurrentJobs
  /\ \E e \in DOMAIN exec : exec[e].job.status = "failed"
  /\ \A e \in DOMAIN exec : exec[e].pc = "done" => exec[e].job.status = "failed"

\* C15: a dispatch attempt starts an executor only for a job that is queued and has had
\* no executor before, so no job ever has two executors and a failed job is not retried.
C15_AdmittedOnce ==
  [][/\ \A e \in DOMAIN exec' :
          e \notin DOMAIN exec =>
            /\ getJob(exec'[e].job.id).status = "queued"
            /\ \A d \in DOMAIN exec : exec[d].job.id # exec'[e].job.id
     /\ \A k \in 1..Len(jobs') :
          Cardinality({e \in DOMAIN exec' : exec'[e].job.id = jobs'[k].id}) <= 1]_vars

\* C15 witness: every job was admitted, one of them failed, and every dispatch attempt
\* scheduled since then has run without starting another executor.
C15_Witness ==
  /\ Len(jobs) = MaxJobs
  /\ Len(exec) = Len(jobs)
  /\ \A e \in DOMAIN exec : exec[e].pc = "done"
  /\ \E e \in DOMAIN exec : exec[e].job.status = "failed"
  /\ timers = 0

\* Where the job with this id stands in the list getAllJobs returns.
ListedAt(id) == CHOOSE p \in 1..Len(getAllJobs) : getAllJobs[p].id = id

\* C16: when the ids issued so far are distinct, getAllJobs returns one entry per addJob
\* call, and of any two jobs the one submitted later stands before the other.
C16_ListMostRecentFirst ==
  (\A a, b \in DOMAIN issued : a # b => issued[a] # issued[b]) =>
    /\ Len(getAllJobs) = Len(issued)
    /\ Len(ListPayload) = Len(issued)
    /\ \A a, b \in DOMAIN issued : a < b => ListedAt(issued[b]) < ListedAt(issued[a])

\* Identifiers a caller may ask for: issued or not.
RequestedIds == {JobId(time, random) : time \in 0..MaxClockJobs, random \in RandomValues}

\* C17: getJob returns undefined, and the status endpoint 404, exactly for the ids that
\* addJob never returned; a job that still waits is returned as a record with status
\* queued.
C17_NotFoundIffNeverIssued ==
  /\ \A id \in RequestedIds :
       /\ getJob(id) = Undefined <=> \A n \in DOMAIN issued : issued[n] # id
       /\ StatusCode(id) = 404 <=> \A n \in DOMAIN issued : issued[n] # id
  /\ \A k \in Slots :
       ~Admitted(k) => getJob(IdAt(k)) # Undefined /\ getJob(IdAt(k)).status = "queued"

\* C17 witness: one issued job still waits, another is past its executor, and some id
\* was never issued.
C17_Witness ==
  /\ \E k \in Slots : ~Admitted(k) /\ StatusCode(IdAt(k)) = 200
  /\ \E k \in Slots : Finished(k) /\ StatusCode(IdAt(k)) = 200
  /\ \E id \in RequestedIds : StatusCode(id) = 404

\* C18: no two addJob calls return the same id, and every call adds a registry entry
\* of its own.
C18_IdsNeverReused ==
  /\ \A a, b \in DOMAIN issued : a # b => issued[a] # issued[b]
  /\ Len(jobs) = Len(issued)

\* C19: the payload of GET /api/download/status has a result only with status completed
\* and an error only with status failed.
C19_PayloadMatchesStatus ==
  \A k \in Slots :
    LET payload == StatusPayload(getJob(IdAt(k)))
    IN  /\ Has(payload, "result") => payload.status = "completed"
        /\ Has(payload, "error") => payload.status = "failed"

\* C20: a step that starts no timer, moves no executor and submits nothing (a status
\* GET, a list request, the browser's own steps) leaves the registry, in content and
\* order, and the active set as they were.
C20_ReadsDoNotMutate ==
  [][(exec' = exec /\ timers' = timers /\ issued' = issued)
       => (jobs' = jobs /\ activeJobs' = activeJobs)]_vars

\* C20 witness: a status read has returned the record of a job whose executor has
\* ended, while the registry lists several jobs created at different times.
C20_Witness ==
  /\ \E n \in Polling : Finished(n) /\ client[n].pc = "waiting"
  /\ \E a, b \in Slots : jobs[a].createdAt # jobs[b].createdAt

\* C21: an id leaves the active set only in the step in which an executor of that job
\* ends (so a job whose executor never ends stays active), and while maxConcurrentJobs
\* ids are active no step starts an executor or takes a job out of queued.
C21_NoCancellation ==
  [][/\ \A id \in activeJobs :
          id \notin activeJobs' =>
            \E e \in DOMAIN exec :
              exec[e].job.id = id /\ exec[e].pc # "done" /\ exec'[e].pc = "done"
     /\ Cardinality(activeJobs) >= maxConcurrentJobs =>
          /\ Len(exec') = Len(exec)
          /\ \A k \in Slots : getJob(IdAt(k)).status = "queued" => jobs'[k].status = "queued"]_vars

\* C21 witness: every slot is held by an executor that is still in its first stage, a
\* job waits, and the dispatch attempt made for it has come and gone.
C21_Witness ==
  /\ Cardinality(activeJobs) = maxConcurrentJobs
  /\ \A e \in DOMAIN exec : exec[e].pc = "analyzing"
  /\ \E k \in Slots : ~Admitted(k)
  /\ timers = 0

\* The executors that have not ended.
Executing == {e \in DOMAIN exec : exec[e].pc # "done"}

\* C22: up to 5 downloads run at once: when 5 jobs have been submitted, every dispatch
\* attempt scheduled for them has run and no executor has ended yet, 5 jobs are being
\* executed.
C22_FiveSimultaneous ==
  (/\ Len(issued) >= DocumentedConcurrent
   /\ timers = 0
   /\ \A e \in DOMAIN exec : exec[e].pc # "done")
    => Cardinality(Executing) >= DocumentedConcurrent

\* C23: a dispatch attempt made while maxConcurrentJobs or more job records have status
\* processing admits nothing: it leaves every job record, the active set and the
\* executors as they were.
C23_DispatchCountsProcessing ==
  [][(timers' = timers - 1 /\ Cardinality(ProcessingInRegistry) >= maxConcurrentJobs)
       => (jobs' = jobs /\ activeJobs' = activeJobs /\ exec' = exec)]_vars

\* C24: while a job's executor is in sub-step i of the downloading stage, getJob(id)
\* returns a snapshot of stage downloading with percent start + i * (end - start) / steps
\* and an estimated time remaining proportional to the steps - i sub-steps left.
C24_DownloadSubSteps ==
  \A e \in DOMAIN exec :
    exec[e].pc = "downloading" =>
      LET progress == getJob(exec[e].job.id).progress
      IN  /\ progress.stage = "downloading"
          /\ progress.progress =
               startProgress + exec[e].i * ((endProgress - startProgress) \div steps)
          /\ Has(progress, "estimatedTimeRemaining")
          /\ progress.estimatedTimeRemaining = (steps - exec[e].i) * 5

\* The stage table: the percent range of each stage.
StageFloor(stage) ==
  CASE stage = "analyzing" -> 0
    [] stage = "downloading" -> 10
    [] stage = "processing" -> 60
    [] stage = "converting" -> 65
    [] stage = "finalizing" -> 80

StageCeiling(stage) ==
  CASE stage = "analyzing" -> 10
    [] stage = "downloading" -> 60
    [] stage = "processing" -> 65
    [] stage = "converting" -> 80
    [] stage = "finalizing" -> 100

InStageRange(progress) ==
  /\ StageFloor(progress.stage) <= progress.progress
  /\ progress.progress <= StageCeiling(progress.stage)
  /\ 0 <= progress.progress /\ progress.progress <= 100

\* C25: every progress snapshot, in the registry and on an executor's object, has a
\* percent within the range the stage table gives its stage, hence within 0..100.
C25_PercentWithinStageRange ==
  /\ \A k \in Slots : InStageRange(getJob(IdAt(k)).progress)
  /\ \A e \in DOMAIN exec : InStageRange(exec[e].job.progress)

\* C25 witness: one executor is in the last download sub-step while another job has
\* reached 100% and a third has not started.
C25_Witness ==
  /\ \E e \in DOMAIN exec : exec[e].pc = "downloading" /\ exec[e].i = steps - 1
  /\ \E k \in Slots : getJob(IdAt(k)).progress.progress = 100
  /\ \E k \in Slots : getJob(IdAt(k)).progress.progress = 0

\* The fixed order of the stages.
StageRank(stage) ==
  CASE stage = "analyzing" -> 1
    [] stage = "downloading" -> 2
    [] stage = "processing" -> 3
    [] stage = "converting" -> 4
    [] stage = "finalizing" -> 5

\* C26: no step replaces a job's progress snapshot, in the registry or on its executor's
\* object, by one of an earlier stage, and the snapshot an executor holds never names an
\* earlier stage than the stage the executor is in.
C26_StageOrder ==
  [][/\ \A k \in Slots :
          StageRank(jobs'[k].progress.stage) >= StageRank(getJob(IdAt(k)).progress.stage)
     /\ \A e \in DOMAIN exec :
          /\ StageRank(exec'[e].job.progress.stage) >= StageRank(exec[e].job.progress.stage)
          /\ exec'[e].pc # "done" => exec'[e].job.progress.stage = exec'[e].pc]_vars

\* C26 witness: a job with watermark removal has gone through all five stages.
C26_Witness ==
  \E e \in DOMAIN exec :
    /\ exec[e].job.removeWatermark
    /\ exec[e].pc = "done"
    /\ exec[e].job.progress.stage = "finalizing"

\* C27: the executor of a job whose metadata cannot be resolved is only ever in the
\* analyzing stage or ended; the job's snapshot, in the registry and on the executor's
\* object, stays the analyzing one written at admission, and the job gets no result.
C27_AbortsAfterAnalyzing ==
  [][\A e \in DOMAIN exec' :
       ~exec'[e].job.urlOk =>
         /\ exec'[e].pc \in {"analyzing", "done"}
         /\ exec'[e].job.progress = Snapshot("analyzing", Milestone("analyzing"))
         /\ jobs'[IndexOf(jobs', exec'[e].job.id)].progress
              = Snapshot("analyzing", Milestone("analyzing"))
         /\ ~Has(exec'[e].job, "result")
         /\ ~Has(jobs'[IndexOf(jobs', exec'[e].job.id)], "result")]_vars

\* C27 witness: a job has failed at metadata resolution, the dispatch attempt its end
\* scheduled has run, and meanwhile another job is past the download.
C27_Witness ==
  /\ \E e \in DOMAIN exec :
       /\ exec[e].pc = "done"
       /\ exec[e].job.status = "failed"
       /\ exec[e].job.error = "Failed to extract video metadata"
  /\ \E e \in DOMAIN exec : exec[e].pc \in {"converting", "finalizing"}
  /\ timers = 0

\* C28: a step of the executors changes no registry record but that of a job whose
\* executor moved in the step, and adds, removes and reorders nothing; and no step
\* changes the id, url, settings or createdAt of a record.
C28_ExecutorWritesOwnRecord ==
  [][/\ exec' # exec =>
          /\ Len(jobs') = Len(jobs)
          /\ \A k \in Slots :
               jobs'[k] # jobs[k] =>
                 \E e \in DOMAIN exec' :
                   /\ exec'[e].job.id = jobs[k].id
                   /\ (e \in DOMAIN exec => exec'[e] # exec[e])
     /\ \A k \in Slots :
          /\ k \in 1..Len(jobs')
          /\ jobs'[k].id = jobs[k].id
          /\ jobs'[k].urlOk = jobs[k].urlOk
          /\ jobs'[k].removeWatermark = jobs[k].removeWatermark
          /\ jobs'[k].createdAt = jobs[k].createdAt]_vars

\* C28 witness: two executors are at work at different stages, each past its first
\* registry update, next to a job that still waits.
C28_Witness ==
  /\ \E d, e \in DOMAIN exec :
       /\ exec[d].pc = "downloading"
       /\ exec[e].pc = "analyzing"
  /\ \E k \in Slots : ~Admitted(k)

\* The fields processNextJob and the executor write.
Written == {"status", "progress", "result", "error", "completedAt"}

Agree(a, b) ==
  \A f \in Written :
    /\ Has(a, f) <=> Has(b, f)
    /\ Has(a, f) => a[f] = b[f]

\* C29: the record getJob returns for a job agrees with the object its executor holds
\* on status, progress, result, error and completedAt.
C29_RegistryAgreesWithExecutor ==
  \A e \in DOMAIN exec : Agree(getJob(exec[e].job.id), exec[e].job)

Min(a, b) == IF a <= b THEN a ELSE b

\* C30: the number of pending dispatch timers is at least the smaller of the number of
\* queued jobs and the number of free slots.
C30_DispatchAlwaysScheduled ==
  timers >= Min(Cardinality(QueuedIds(jobs)), maxConcurrentJobs - Cardinality(activeJobs))

\* C30 witness: a slot has just been freed by an executor that ended while a job
\* waits, and exactly one dispatch attempt is pending for it.
C30_Witness ==
  /\ QueuedIds(jobs) # {}
  /\ Cardinality(activeJobs) = maxConcurrentJobs - 1
  /\ \E e \in DOMAIN exec : exec[e].pc = "done"
  /\ timers = 1

====
